---- MODULE Spec2Model ----
(***************************************************************************)
(* GutenDocs documentation-extraction pipeline (src/src/parser/extract.js) *)
(*                                                                         *)
(*   exclude     the file Selector: an ignore-walk Walker over ROOT with   *)
(*               ignoreFiles ['.gutenignore', 1] and the synthetic rule    *)
(*               text  "*\n!rel/**/*.js\n!rel/**/*.jsx[\n!rel]"            *)
(*   acornParse  the Source Parser and Comment Binder                      *)
(*   extract     the Orchestrator: exclude(arr).then(list => ...)          *)
(*                                                                         *)
(* Three specifications share the variables:                               *)
(*   Spec        one run of extract, from the walk's terminal event to the *)
(*               settled promise                                           *)
(*   SpecSelect  exclude over a directory tree, include paths and ignore   *)
(*               file drawn from bounded sets                              *)
(*   SpecBind    acornParse over every token sequence up to MaxTokens      *)
(***************************************************************************)
EXTENDS Integers, Sequences, FiniteSets, TLC

VARIABLES
    fileTree,     \* the files under ROOT
    disk,         \* what readFileSync gives for each file: its text, or Unreadable
    arr,          \* include paths handed to extract/exclude, each relative to ROOT
    ignoreLines,  \* lines of ROOT/.gutenignore (<<>> when absent or empty)
    walk,         \* the Walker: "idle", "walking", "done", "error"
    excluded,     \* the promise exclude returns: [state, value]
    list,         \* the argument of the .then callback of extract
    verbosity,    \* gutenrc.verbosity
    pc,           \* position inside the .then callback of extract
    fileCount,    \* index of the element list.map is at (0-based, as in the code)
    result,       \* tags returned by the map callback so far
    badFiles,     \* badFiles array
    out,          \* what was written to the console / stdout, in order
    promise,      \* the promise extract returns: [state, value]
    content,      \* SpecBind: the source text handed to acornParse
    tagContent,   \* SpecBind: the tagContent array handed to acornParse
    bindpc,       \* SpecBind: "ready", "returned", "threw"
    runs          \* SpecTwice: the calls of extract made so far, in order

vars == <<fileTree, disk, arr, ignoreLines, walk, excluded, list, verbosity, pc,
          fileCount, result, badFiles, out, promise, content, tagContent, bindpc,
          runs>>

inputVars == <<fileTree, disk, arr, ignoreLines, verbosity>>
walkVars  == <<walk, excluded>>
runVars   == <<list, pc, fileCount, result, badFiles, out, promise>>
bindVars  == <<content, tagContent, bindpc>>

----------------------------------------------------------------------------
(* Bounds *)

MaxDepth == 2        \* directory nesting below ROOT in the Selector's tree
MaxInclude == 2      \* include paths per call
MaxIgnoreLines == 1  \* lines of the root .gutenignore
MaxFiles == 3        \* files the walk can hand to the orchestrator
MaxTokens == 4       \* tokens of a source text handed to acornParse

----------------------------------------------------------------------------
(* Generic helpers *)

Range(s) == {s[i] : i \in 1..Len(s)}

SeqsUpTo(S, n) == UNION {[1..k -> S] : k \in 0..n}

RECURSIVE Flatten(_)
Flatten(ss) == IF ss = <<>> THEN <<>> ELSE Head(ss) \o Flatten(Tail(ss))

----------------------------------------------------------------------------
(* The file tree under ROOT.  A path is the sequence of its segments,      *)
(* relative to ROOT.  Every directory path up to MaxDepth exists and holds *)
(* one file of every name in FileNames.                                    *)

DirNames  == {"foo", "lib"}
FileNames == {"bar.js", "bar.jsx", "bar.txt"}

DirPaths  == SeqsUpTo(DirNames, MaxDepth)
TreeFiles == {d \o <<f>> : d \in DirPaths, f \in FileNames}

\* path.extname of one segment
extnameOf(name) ==
    CASE name = "bar.js"  -> ".js"
      [] name = "bar.jsx" -> ".jsx"
      [] name = "bar.txt" -> ".txt"
      [] OTHER            -> ""

\* path.extname(p): the extension of the last segment (ROOT itself has none)
extname(p) == IF p = <<>> THEN "" ELSE extnameOf(p[Len(p)])

\* localeCompare on the names of the tree, as a rank
NameOrder == <<"bar.js", "bar.jsx", "bar.txt", "foo", "lib">>
NameRank(n) == CHOOSE i \in 1..Len(NameOrder) : NameOrder[i] = n

RECURSIVE PathLess(_, _)
PathLess(p, q) ==
    IF p = <<>> THEN q # <<>>
    ELSE IF q = <<>> THEN FALSE
    ELSE IF Head(p) = Head(q) THEN PathLess(Tail(p), Tail(q))
    ELSE NameRank(Head(p)) < NameRank(Head(q))

\* Array.from(result): the members of the Set in some order
RECURSIVE arrayFrom(_)
arrayFrom(S) ==
    IF S = {} THEN <<>>
    ELSE LET x == CHOOSE y \in S : TRUE IN <<x>> \o arrayFrom(S \ {x})

\* Array.from(result).sort(this.sort), done when 'done' is emitted at the root
SortPaths(S) == SortSeq(arrayFrom(S), PathLess)

----------------------------------------------------------------------------
(* Ignore rules.  A line of rule text is [comment, neg, segs]: comment     *)
(* marks a blank or '#' line, neg a leading '!', segs the pattern split on *)
(* '/'.  A segment is a literal name, "*", "*.js", "*.jsx", "*.txt" or the *)
(* globstar.                                                               *)

GLOBSTAR == "**"

Line(neg, segs) == [comment |-> FALSE, neg |-> neg, segs |-> segs]
CommentLine     == [comment |-> TRUE, neg |-> FALSE, segs |-> <<>>]

\* minimatch of one pattern segment against one path segment (dot: true)
segMatch(p, f) ==
    CASE p = "*"     -> f # ""
      [] p = "*.js"  -> extnameOf(f) = ".js"
      [] p = "*.jsx" -> extnameOf(f) = ".jsx"
      [] p = "*.txt" -> extnameOf(f) = ".txt"
      [] OTHER       -> p = f

\* Minimatch.matchOne
RECURSIVE matchOne(_, _, _)
RECURSIVE globstarScan(_, _, _)
matchOne(file, pattern, partial) ==
    IF pattern = <<>>
      THEN file = <<>> \/ (Len(file) = 1 /\ file[1] = "")
    ELSE IF file = <<>>
      THEN partial
    ELSE IF Head(pattern) = GLOBSTAR
      THEN IF Len(pattern) = 1 THEN TRUE
           ELSE globstarScan(file, Tail(pattern), partial)
    ELSE segMatch(Head(pattern), Head(file))
         /\ matchOne(Tail(file), Tail(pattern), partial)
globstarScan(file, rest, partial) ==
    IF file = <<>> THEN partial
    ELSE matchOne(file, rest, partial) \/ globstarScan(Tail(file), rest, partial)

\* the last segment of f that is not empty
RECURSIVE lastNonEmpty(_)
lastNonEmpty(f) ==
    IF f = <<>> THEN ""
    ELSE IF f[Len(f)] # "" THEN f[Len(f)]
    ELSE lastNonEmpty(SubSeq(f, 1, Len(f) - 1))

\* Minimatch.match with { matchBase: true, flipNegate: true }
match(rule, f, partial) ==
    IF rule.segs = <<>> THEN f = <<>>
    ELSE IF Len(rule.segs) = 1
      THEN matchOne(<<lastNonEmpty(f)>>, rule.segs, partial)
    ELSE matchOne(f, rule.segs, partial)

\* Walker.onReadIgnoreFile: drop blank and comment lines, one Minimatch per line
onReadIgnoreFile(data) == SelectSeq(data, LAMBDA l : ~l.comment)

\* the reducer of exclude: the lines one include path p appends to the rule text
\* (relPath '' splits to the single empty segment, as in "!/**/*.js")
reduceStep(r, p) ==
    LET relPath == IF p = <<>> THEN <<"">> ELSE p
        deep    == <<Line(TRUE, relPath \o <<GLOBSTAR, "*.js">>),
                     Line(TRUE, relPath \o <<GLOBSTAR, "*.jsx">>)>>
    IN  IF extname(p) \in {".js", ".jsx"}
          THEN r \o deep \o <<Line(TRUE, p)>>
          ELSE r \o deep

\* arr.reduce(..., '*')
RECURSIVE reduceFrom(_, _)
reduceFrom(r, a) == IF a = <<>> THEN r ELSE reduceFrom(reduceStep(r, Head(a)), Tail(a))
ruleMutNoBase(a) == reduceFrom(<<>>, a)
rule(a) == reduceFrom(<<Line(FALSE, <<"*">>)>>, a)

\* options.ignoreFiles
ignoreFilesMutSwapped == <<"1", ".gutenignore">>
ignoreFiles == <<".gutenignore", "1">>

\* Walker.ignoreRules of the root walker once the walk has started: the rules
\* read from ROOT/.gutenignore, and those exclude stored under the key 1
ignoreRules(f, a, ig) ==
    IF f = ".gutenignore" THEN onReadIgnoreFile(ig) ELSE onReadIgnoreFile(rule(a))

\* the rules in the order Walker.filterEntry goes through them
rulesInOrder(a, ig) ==
    Flatten([i \in 1..Len(ignoreFiles) |-> ignoreRules(ignoreFiles[i], a, ig)])

\* the test one rule makes in Walker.filterEntry
ruleMatch(r, entry, partial) ==
    \/ match(r, <<"">> \o entry, FALSE)
    \/ match(r, entry, FALSE)
    \/ (partial /\ (\/ match(r, <<"">> \o entry \o <<"">>, FALSE)
                    \/ match(r, entry \o <<"">>, FALSE)))
    \/ (partial /\ r.neg /\ (\/ match(r, <<"">> \o entry, TRUE)
                             \/ match(r, entry, TRUE)))

RECURSIVE applyRules(_, _, _, _)
applyRules(rules, included, entry, partial) ==
    IF rules = <<>> THEN included
    ELSE LET r == Head(rules)
             inc == IF r.neg # included /\ ruleMatch(r, entry, partial)
                      THEN r.neg ELSE included
         IN  applyRules(Tail(rules), inc, entry, partial)

\* Walker.filterEntry as the root walker answers it, rules being its rules in
\* order (a child walker has no rules of its own here and asks its parent with
\* the path prefixed)
filterEntry(rules, entry, partial) == applyRules(rules, TRUE, entry, partial)

\* Walker.onstat over the whole tree: a directory is walked when it passes as a
\* directory in its parent, a file is added when it passes as a file
walked(rules, f) ==
    \A k \in 1..(Len(f) - 1) : filterEntry(rules, SubSeq(f, 1, k), TRUE)
walkResult(files, a, ig) ==
    LET rules == rulesInOrder(a, ig)
    IN  {f \in files : walked(rules, f) /\ filterEntry(rules, f, FALSE)}

\* what the 'done' event of the root walker carries
doneData(files, a, ig) == SortPaths(walkResult(files, a, ig))

----------------------------------------------------------------------------
(* Source text.  A text is a sequence of tokens; token i spans the offsets *)
(* i-1 .. i.  Comments may stand between any two tokens.                   *)
(*   "doc"    /** ... */           "blk"   /* ... */      "line"  //* ...  *)
(*   "fn"     function f() {}      "anonfn" function () {}                 *)
(*   "var1"   const a = 1;         "var2"  const a = 1, b = 2;             *)
(*   "expr"   a();                 "expdef" export default                 *)
(*   "class{" class C {            "meth"  m() {}         "}"              *)

Tokens == {"doc", "blk", "line", "fn", "anonfn", "var1", "var2", "expr",
           "expdef", "class{", "meth", "}"}

IsComment(t) == t \in {"doc", "blk", "line"}

Null == <<>>

\* identifiers and comment texts carry the index of their token, so that two
\* of them are equal only when they are the same piece of the text
Ident(letter, i) == <<letter, i>>
commentText(t, i) == IF t = "blk" THEN <<" ", i>> ELSE <<"*", i>>

Node(type, start, end, kids) ==
    [type |-> type, start |-> start, end |-> end, kids |-> kids,
     key |-> Null, id |-> Null, declarations |-> <<>>]

RECURSIVE skipComments(_, _)
skipComments(toks, i) ==
    IF i <= Len(toks) /\ IsComment(toks[i]) THEN skipComments(toks, i + 1) ELSE i

Fail == [ok |-> FALSE, next |-> 0]

\* acorn's statement and class-body parsers; ok = FALSE is the SyntaxError
RECURSIVE parseStatement(_, _, _)
RECURSIVE parseBody(_, _, _)
parseStatement(toks, i, exported) ==
    LET t == toks[i] IN
    CASE t = "fn" ->
           [ok |-> TRUE, next |-> i + 1,
            node |-> [Node("FunctionDeclaration", i - 1, i, <<>>)
                        EXCEPT !.id = [name |-> Ident("f", i)]]]
      [] t = "anonfn" /\ exported ->
           [ok |-> TRUE, next |-> i + 1,
            node |-> Node("FunctionDeclaration", i - 1, i, <<>>)]
      [] t = "var1" /\ ~exported ->
           [ok |-> TRUE, next |-> i + 1,
            node |-> [Node("VariableDeclaration", i - 1, i, <<>>)
                        EXCEPT !.declarations = <<[id |-> [name |-> Ident("a", i)]]>>]]
      [] t = "var2" /\ ~exported ->
           [ok |-> TRUE, next |-> i + 1,
            node |-> [Node("VariableDeclaration", i - 1, i, <<>>)
                        EXCEPT !.declarations = <<[id |-> [name |-> Ident("a", i)]],
                                                  [id |-> [name |-> Ident("b", i)]]>>]]
      [] t = "expr" ->
           [ok |-> TRUE, next |-> i + 1,
            node |-> Node(IF exported THEN "CallExpression" ELSE "ExpressionStatement",
                          i - 1, i, <<>>)]
      [] t = "class{" ->
           LET b == parseBody(toks, i + 1, "class") IN
           IF b.ok
             THEN [ok |-> TRUE, next |-> b.next,
                   node |-> Node("ClassDeclaration", i - 1, b.next - 1, b.nodes)]
             ELSE Fail
      [] t = "expdef" /\ ~exported ->
           LET j == skipComments(toks, i + 1) IN
           IF j > Len(toks) THEN Fail
           ELSE LET d == parseStatement(toks, j, TRUE) IN
                IF d.ok
                  THEN [ok |-> TRUE, next |-> d.next,
                        node |-> Node("ExportDefaultDeclaration", i - 1, d.node.end,
                                      <<d.node>>)]
                  ELSE Fail
      [] OTHER -> Fail
parseBody(toks, i, ctx) ==
    LET j == skipComments(toks, i) IN
    IF j > Len(toks) THEN [ok |-> ctx = "top", nodes |-> <<>>, next |-> j]
    ELSE IF toks[j] = "}" THEN [ok |-> ctx = "class", nodes |-> <<>>, next |-> j + 1]
    ELSE IF ctx = "class"
      THEN IF toks[j] = "meth"
             THEN LET r == parseBody(toks, j + 1, ctx)
                      m == [Node("MethodDefinition", j - 1, j, <<>>)
                              EXCEPT !.key = [name |-> Ident("m", j)]]
                  IN  [ok |-> r.ok, nodes |-> <<m>> \o r.nodes, next |-> r.next]
             ELSE [ok |-> FALSE, nodes |-> <<>>, next |-> j]
    ELSE LET s == parseStatement(toks, j, FALSE) IN
         IF ~s.ok THEN [ok |-> FALSE, nodes |-> <<>>, next |-> j]
         ELSE LET r == parseBody(toks, s.next, ctx)
              IN  [ok |-> r.ok, nodes |-> <<s.node>> \o r.nodes, next |-> r.next]

\* the comments acorn reports to onComment(block, text, start, end), in order
commentsOf(toks) ==
    LET idx == SelectSeq([i \in 1..Len(toks) |-> i], LAMBDA i : IsComment(toks[i]))
    IN  [k \in 1..Len(idx) |->
           [block |-> toks[idx[k]] # "line", text |-> commentText(toks[idx[k]], idx[k]),
            start |-> idx[k] - 1, end |-> idx[k]]]

\* the onComment option of acornParse: keep the block comments that start with '*'
onComment(c) == c.block /\ c.text[1] = "*"

\* parse(content, {..., onComment}): the Program node, or the SyntaxError
parse(toks) ==
    LET b == parseBody(toks, 1, "top") IN
    IF b.ok THEN [ok |-> TRUE, tree |-> Node("Program", 0, Len(toks), b.nodes)]
            ELSE [ok |-> FALSE]

\* acornWalk.findNodeAfter(tree, pos): the outermost node of the walk that
\* starts at or after pos
RECURSIVE findNodeAfter(_, _)
RECURSIVE findInBody(_, _)
findNodeAfterMutStrict(node, pos) ==
    IF node.end < pos THEN [found |-> FALSE]
    ELSE IF node.start > pos THEN [found |-> TRUE, node |-> node]
    ELSE findInBody(node.kids, pos)
findNodeAfter(node, pos) ==
    IF node.end < pos THEN [found |-> FALSE]
    ELSE IF node.start >= pos THEN [found |-> TRUE, node |-> node]
    ELSE findInBody(node.kids, pos)
findInBody(kids, pos) ==
    IF kids = <<>> THEN [found |-> FALSE]
    ELSE LET r == findNodeAfter(Head(kids), pos) IN
         IF r.found THEN r ELSE findInBody(Tail(kids), pos)

\* tagContent.push of one {comment, name}
push(tc, comment, name) == Append(tc, [comment |-> comment, name |-> name])

\* node.declarations.forEach(declaration => tagContent.push(...))
RECURSIVE pushDeclarations(_, _, _)
pushDeclarationsMutReversed(tc, comment, decls) ==
    IF decls = <<>> THEN tc
    ELSE push(pushDeclarations(tc, comment, Tail(decls)), comment, Head(decls).id.name)
pushDeclarations(tc, comment, decls) ==
    IF decls = <<>> THEN tc
    ELSE pushDeclarations(push(tc, comment, Head(decls).id.name), comment, Tail(decls))

\* the switch on node.type; threw = TRUE is the TypeError of reading .name of null
bindNodeMutMethodDropped(tc, comment, node) ==
    CASE node.type = "VariableDeclaration" ->
           [threw |-> FALSE, tagContent |-> pushDeclarations(tc, comment, node.declarations)]
      [] node.type = "FunctionDeclaration" ->
           IF node.id = Null THEN [threw |-> TRUE, tagContent |-> tc]
           ELSE [threw |-> FALSE, tagContent |-> push(tc, comment, node.id.name)]
      [] OTHER -> [threw |-> FALSE, tagContent |-> tc]
bindNode(tc, comment, node) ==
    CASE node.type = "MethodDefinition" ->
           [threw |-> FALSE, tagContent |-> push(tc, comment, node.key.name)]
      [] node.type = "VariableDeclaration" ->
           [threw |-> FALSE, tagContent |-> pushDeclarations(tc, comment, node.declarations)]
      [] node.type = "FunctionDeclaration" ->
           IF node.id = Null THEN [threw |-> TRUE, tagContent |-> tc]
           ELSE [threw |-> FALSE, tagContent |-> push(tc, comment, node.id.name)]
      [] OTHER -> [threw |-> FALSE, tagContent |-> tc]

\* the callback of arr.forEach for one collected comment
bindComment(tc, c, tree) ==
    LET r == findNodeAfter(tree, c.pos) IN
    IF ~r.found THEN [threw |-> FALSE, tagContent |-> tc]
    ELSE bindNode(tc, c.comment, r.node)

\* arr.forEach: stops at the first callback that throws
RECURSIVE forEachComment(_, _, _)
forEachComment(tc, cs, tree) ==
    IF cs = <<>> THEN [threw |-> FALSE, tagContent |-> tc]
    ELSE LET r == bindComment(tc, Head(cs), tree) IN
         IF r.threw THEN r ELSE forEachComment(r.tagContent, Tail(cs), tree)

\* the array arr that onComment fills while parse runs
collected(toks) ==
    LET kept == SelectSeq(commentsOf(toks), onComment)
    IN  [k \in 1..Len(kept) |-> [comment |-> kept[k].text, pos |-> kept[k].end]]

\* acornParse(content, tagContent): tagContent is mutated in place, so what was
\* pushed before an exception stays in it.  e names the exception.
acornParse(toks, tc) ==
    LET p == parse(toks) IN
    IF ~p.ok THEN [threw |-> TRUE, e |-> "SyntaxError", tagContent |-> tc]
    ELSE LET r == forEachComment(tc, collected(toks), p.tree) IN
         [threw |-> r.threw, e |-> IF r.threw THEN "TypeError" ELSE "none",
          tagContent |-> r.tagContent]

----------------------------------------------------------------------------
(* The orchestrator                                                        *)

MaxVerbosity == 5

Pending        == [state |-> "pending", value |-> <<>>]
Resolved(v)    == [state |-> "resolved", value |-> v]
Rejected(e)    == [state |-> "rejected", value |-> e]

Unreadable == <<"EACCES">>

\* new Walker(options).on('done', resolve)
onDone(data) == Resolved(data)

\* new Walker(options).on('error', reject)
onErrorMutResolve(e) == Resolved(<<>>)
onError(e) == Rejected(e)

\* what the walk can fail on: readdir of ROOT or of a directory below it, the
\* read of .gutenignore, the stat of an entry
WalkErrors == {"readdir", "readFile", "lstat"}

\* errorHandler(file, gutenrc, e, badFiles): the new badFiles and what it logs
errorHandlerMutNoPush(file, v, e, bad) ==
    [badFiles |-> bad,
     log |-> IF v >= 3 THEN <<[kind |-> "errorMessage", file |-> file, e |-> e]>> ELSE <<>>]
errorHandler(file, v, e, bad) ==
    [badFiles |-> Append(bad, file),
     log |-> IF v >= 4
               THEN <<[kind |-> "errorProcessing", file |-> file],
                      [kind |-> "errorObject", e |-> e],
                      [kind |-> "errorRule"]>>
             ELSE IF v >= 3
               THEN <<[kind |-> "errorMessage", file |-> file, e |-> e]>>
             ELSE <<>>]

\* the progress line the map callback writes for one file
progress(file, n, v) ==
    IF v >= 2 THEN <<[kind |-> "progress", n |-> n, file |-> file]>> ELSE <<>>

\* the try/catch of the map callback: the tag it returns, the new badFiles and
\* what is logged.  tag.content is the array acornParse pushed into.
processFile(file, text, n, v, bad) ==
    LET r == acornParse(text, <<>>)
        h == IF r.threw THEN errorHandler(file, v, r.e, bad)
                        ELSE [badFiles |-> bad, log |-> <<>>]
    IN  [tag |-> [content |-> r.tagContent, name |-> file],
         badFiles |-> h.badFiles,
         log |-> h.log \o progress(file, n, v)]

\* the console.log calls after list.map
summaryMutGated(l, bad, v) ==
    IF v >= 1
      THEN <<[kind |-> "filesProcessed", n |-> Len(l)]>>
           \o (IF bad # <<>> THEN <<[kind |-> "unparsableCount", n |-> Len(bad)]>> ELSE <<>>)
      ELSE <<>>
summary(l, bad, v) ==
    <<[kind |-> "filesProcessed", n |-> Len(l)]>>
    \o (IF bad # <<>> /\ v >= 2
          THEN <<[kind |-> "unparsableFiles", n |-> Len(bad)]>>
               \o [k \in 1..Len(bad) |-> [kind |-> "fileName", file |-> bad[k]]]
        ELSE IF bad # <<>> /\ v >= 1
          THEN <<[kind |-> "unparsableCount", n |-> Len(bad)]>>
        ELSE <<>>)

(* exclude(arr): the rule text is built and handed to the walker under the  *)
(* key 1, and the walk is started.                                          *)
Exclude ==
    /\ walk = "idle"
    /\ walk' = "walking"
    /\ UNCHANGED <<inputVars, excluded, runVars, bindVars, runs>>

(* The walk ends: the root walker emits 'done' with the sorted result.      *)
WalkDone ==
    /\ walk = "walking"
    /\ walk' = "done"
    /\ excluded' = onDone(doneData(fileTree, arr, ignoreLines))
    /\ UNCHANGED <<inputVars, runVars, bindVars, runs>>

(* The walk fails: a walker emits 'error'; no 'done' follows it.            *)
WalkError ==
    /\ walk = "walking"
    /\ \E e \in WalkErrors :
         /\ walk' = "error"
         /\ excluded' = onError(e)
    /\ UNCHANGED <<inputVars, runVars, bindVars, runs>>

(* exclude(arr) was rejected: the .then callback is skipped and the promise *)
(* of extract is rejected with the same error.                              *)
ThenRejected ==
    /\ excluded.state = "rejected"
    /\ pc = "waiting"
    /\ pc' = "done"
    /\ promise' = Rejected(excluded.value)
    /\ UNCHANGED <<inputVars, walkVars, list, fileCount, result, badFiles, out, bindVars, runs>>

(* exclude(arr) was resolved: the .then callback starts on the list.        *)
ThenFulfilled ==
    /\ excluded.state = "resolved"
    /\ pc = "waiting"
    /\ pc' = "map"
    /\ list' = excluded.value
    /\ fileCount' = 0
    /\ result' = <<>>
    /\ badFiles' = <<>>
    /\ UNCHANGED <<inputVars, walkVars, out, promise, bindVars, runs>>

MapFileMutDropBad ==
    /\ pc = "map"
    /\ fileCount < Len(list)
    /\ LET file == list[fileCount + 1] IN
       IF disk[file] = Unreadable
         THEN /\ pc' = "done"
              /\ promise' = Rejected(Unreadable)
              /\ UNCHANGED <<fileCount, result, badFiles, out>>
         ELSE LET r == processFile(file, disk[file], fileCount, verbosity, badFiles) IN
              /\ result' = IF r.badFiles # badFiles THEN result ELSE Append(result, r.tag)
              /\ badFiles' = r.badFiles
              /\ out' = out \o r.log
              /\ fileCount' = fileCount + 1
              /\ UNCHANGED <<pc, promise>>
    /\ UNCHANGED <<inputVars, walkVars, list, bindVars, runs>>

(* One call of the map callback.  readFileSync is outside the try: when it  *)
(* throws, the .then callback throws and the promise of extract is rejected. *)
MapFile ==
    /\ pc = "map"
    /\ fileCount < Len(list)
    /\ LET file == list[fileCount + 1] IN
       IF disk[file] = Unreadable
         THEN /\ pc' = "done"
              /\ promise' = Rejected(Unreadable)
              /\ UNCHANGED <<fileCount, result, badFiles, out>>
         ELSE LET r == processFile(file, disk[file], fileCount, verbosity, badFiles) IN
              /\ result' = Append(result, r.tag)
              /\ badFiles' = r.badFiles
              /\ out' = out \o r.log
              /\ fileCount' = fileCount + 1
              /\ UNCHANGED <<pc, promise>>
    /\ UNCHANGED <<inputVars, walkVars, list, bindVars, runs>>

(* list.map has returned: the summary is logged and the promise resolved    *)
(* with result.                                                             *)
SummaryMutFlagged ==
    /\ pc = "map"
    /\ fileCount = Len(list)
    /\ out' = out \o summary(list, badFiles, verbosity)
    /\ promise' = Resolved(result \o [k \in 1..Len(badFiles) |->
                                      [content |-> <<>>, name |-> badFiles[k]]])
    /\ pc' = "done"
    /\ UNCHANGED <<inputVars, walkVars, list, fileCount, result, badFiles, bindVars, runs>>
Summary ==
    /\ pc = "map"
    /\ fileCount = Len(list)
    /\ out' = out \o summary(list, badFiles, verbosity)
    /\ promise' = Resolved(result)
    /\ pc' = "done"
    /\ UNCHANGED <<inputVars, walkVars, list, fileCount, result, badFiles, bindVars, runs>>

(* acornParse called on its own, on content and the array tagContent.       *)
AcornParse ==
    /\ bindpc = "ready"
    /\ LET r == acornParse(content, tagContent) IN
       /\ tagContent' = r.tagContent
       /\ bindpc' = IF r.threw THEN "threw" ELSE "returned"
    /\ UNCHANGED <<inputVars, walkVars, runVars, content, runs>>

----------------------------------------------------------------------------
(* Inputs *)

SrcAdd        == <<"doc", "fn">>
SrcConfig     == <<"doc", "var2">>
SrcUnbalanced == <<"doc", "fn", "class{", "doc", "meth">>
SrcAnonymous  == <<"doc", "fn", "expdef", "doc", "anonfn">>
SrcPlain      == <<"expr">>
Sources == {SrcAdd, SrcConfig, SrcUnbalanced, SrcAnonymous, SrcPlain}

IsSource(f) == extname(f) \in {".js", ".jsx"}

\* the tree of one run of extract: MaxFiles source files and a text file
RunOrder == <<<<"foo", "bar.js">>, <<"lib", "bar.js">>, <<"foo", "bar.jsx">>,
              <<"lib", "bar.jsx">>, <<"bar.js">>, <<"bar.jsx">>>>
RunTree ==
    {RunOrder[i] : i \in {k \in 1..Len(RunOrder) : k <= MaxFiles}} \cup {<<"foo", "bar.txt">>}
RunIncludes == {<<>>, <<<<"foo">>>>, <<<<"lib">>>>, <<<<"foo">>, <<"lib">>>>, <<<<>>>>}
RunIgnores  == {<<Line(FALSE, <<"lib">>)>>}

IncludeChoices == {<<>>, <<"foo">>, <<"foo", "lib">>, <<"bar.js">>, <<"foo", "bar.jsx">>}
IgnoreChoices  == {Line(FALSE, <<"lib">>), Line(FALSE, <<"foo", "bar.js">>),
                   Line(TRUE, <<"*.txt">>), CommentLine}

InitIdle ==
    /\ walk = "idle"
    /\ excluded = Pending
    /\ list = <<>>
    /\ pc = "waiting"
    /\ fileCount = 0
    /\ result = <<>>
    /\ badFiles = <<>>
    /\ out = <<>>
    /\ promise = Pending
    /\ runs = <<>>

----------------------------------------------------------------------------
(* Spec: one run of extract(arr) *)

Init ==
    /\ fileTree = RunTree
    /\ disk \in [{f \in RunTree : IsSource(f)} -> Sources \cup {Unreadable}]
    /\ arr \in RunIncludes
    /\ ignoreLines \in RunIgnores
    /\ verbosity \in 0..MaxVerbosity
    /\ InitIdle
    /\ content = <<>> /\ tagContent = <<>> /\ bindpc = "off"

Next ==
    \/ Exclude
    \/ WalkDone
    \/ WalkError
    \/ ThenRejected
    \/ ThenFulfilled
    \/ MapFile
    \/ Summary

Spec == Init /\ [][Next]_vars

(* SpecSelect: exclude(arr) over the whole tree *)

InitSelect ==
    /\ fileTree = TreeFiles
    /\ disk = [f \in {g \in TreeFiles : IsSource(g)} |-> SrcAdd]
    /\ arr \in SeqsUpTo(IncludeChoices, MaxInclude)
    /\ ignoreLines \in SeqsUpTo(IgnoreChoices, MaxIgnoreLines)
    /\ verbosity = 0
    /\ InitIdle
    /\ content = <<>> /\ tagContent = <<>> /\ bindpc = "off"

NextSelect ==
    \/ Exclude
    \/ WalkDone
    \/ WalkError

SpecSelect == InitSelect /\ [][NextSelect]_vars

(* SpecBind: acornParse over every text of up to MaxTokens tokens *)

InitBind ==
    /\ fileTree = {}
    /\ disk = <<>>
    /\ arr = <<>>
    /\ ignoreLines = <<>>
    /\ verbosity = 0
    /\ InitIdle
    /\ content \in SeqsUpTo(Tokens, MaxTokens)
    /\ tagContent = <<>>
    /\ bindpc = "ready"

NextBind == AcornParse

SpecBind == InitBind /\ [][NextBind]_vars

----------------------------------------------------------------------------
(* Properties of one run of extract (Spec) *)

Names(r) == [i \in 1..Len(r) |-> r[i].name]

Count(sq, x) == Cardinality({i \in 1..Len(sq) : sq[i] = x})

\* the files of list the map callback has been called on
Processed == SubSeq(list, 1, Len(result))

ParseFails(f) == disk[f] # Unreadable /\ acornParse(disk[f], <<>>).threw

AllReadable == \A f \in Range(excluded.value) : disk[f] # Unreadable

\* C1: when extract resolves, the names of the FileResults are exactly the list
\* the Selector yielded, in the same order, files whose parsing failed included;
\* and a run in which every selected file can be read ends resolved.
C1_OneResultPerFile ==
    /\ promise.state = "resolved" =>
         /\ excluded.state = "resolved"
         /\ Names(promise.value) = excluded.value
    /\ (pc = "done" /\ excluded.state = "resolved" /\ AllReadable) =>
         promise.state = "resolved"

C1_Witness ==
    /\ promise.state = "resolved"
    /\ Len(promise.value) >= 2
    /\ badFiles # <<>>
    /\ \E i \in 1..Len(promise.value) : promise.value[i].content # <<>>

\* the map callback run over a list on its own
RECURSIVE mapOver(_, _, _)
mapOver(l, n, bad) ==
    IF l = <<>> THEN <<>>
    ELSE LET r == processFile(Head(l), disk[Head(l)], n, verbosity, bad)
         IN  <<r.tag>> \o mapOver(Tail(l), n + 1, r.badFiles)

\* C2: a file whose processing raises a parse failure is recorded in badFiles
\* exactly once (and no other file is), the run goes on to the next file, and
\* the FileResult of every other file is what a run over the list without the
\* failing files gives for it; only a failed read ends the run early.
C2_FailureIsolated ==
    pc \in {"map", "done"} =>
      /\ \A f \in Range(Processed) : Count(badFiles, f) = IF ParseFails(f) THEN 1 ELSE 0
      /\ Range(badFiles) \subseteq Range(Processed)
      /\ LET good == SelectSeq(Processed, LAMBDA f : ~ParseFails(f))
             ref  == mapOver(good, 0, <<>>)
         IN  \A i \in 1..Len(result) :
               ~ParseFails(list[i]) =>
                 \E j \in 1..Len(ref) : ref[j].name = list[i] /\ ref[j] = result[i]
      /\ (promise.state = "rejected" /\ excluded.state = "resolved") =>
           /\ Len(result) < Len(list)
           /\ disk[list[Len(result) + 1]] = Unreadable
      /\ (pc = "done" /\ excluded.state = "resolved") =>
           \/ promise.state = "resolved" /\ Len(result) = Len(list)
           \/ promise.state = "rejected" /\ ~AllReadable

C2_Witness ==
    /\ promise.state = "resolved"
    /\ Len(list) >= 2
    /\ ParseFails(list[1])
    /\ ~ParseFails(list[2])
    /\ result[2].content # <<>>

\* C3 (as claimed): a file recorded in badFiles has an empty FileResult content
C3_FailedFileEmpty ==
    \A i \in 1..Len(result) :
      result[i].name \in Range(badFiles) => result[i].content = <<>>

----------------------------------------------------------------------------
(* Properties of acornParse (SpecBind) *)

\* every node of a tree
RECURSIVE AllNodes(_)
AllNodes(n) == {n} \cup UNION {AllNodes(n.kids[i]) : i \in 1..Len(n.kids)}

MinOf(S) == CHOOSE x \in S : \A y \in S : x <= y

\* the entries of tagContent that carry the text of comment c
EntriesOf(tc, c) == SelectSeq(tc, LAMBDA t : t.comment = c.comment)

DeclNames(node) == [k \in 1..Len(node.declarations) |-> node.declarations[k].id.name]

\* the position of a declarator's identifier inside its token
LetterRank(name) == IF name[1] = "a" THEN 1 ELSE 2

\* C4: the TaggedComments follow the source order of the doc comments they come
\* from, and those one comment draws from a VariableDeclaration stand next to
\* each other in the left-to-right order of the declarators.
C4_SourceOrder ==
    bindpc \in {"returned", "threw"} =>
      \A k \in 1..(Len(tagContent) - 1) :
        LET x == tagContent[k]
            y == tagContent[k + 1]
        IN  \/ x.comment[2] < y.comment[2]
            \/ /\ x.comment = y.comment
               /\ x.name[2] = y.name[2]
               /\ content[x.name[2]] = "var2"
               /\ LetterRank(x.name) < LetterRank(y.name)

C4_Witness ==
    /\ bindpc = "returned"
    /\ content = <<"doc", "var2", "doc", "fn">>
    /\ Len(tagContent) = 3

C6_NearestFollowing ==
    bindpc \in {"returned", "threw"} /\ parse(content).ok =>
      LET t  == parse(content).tree
          cs == collected(content)
      IN  /\ \A k \in 1..Len(cs) :
               LET after == {n \in AllNodes(t) : n.start >= cs[k].pos}
                   r == findNodeAfter(t, cs[k].pos)
               IN  /\ r.found <=> after # {}
                   /\ r.found => r.node.start = MinOf({n.start : n \in after})
                   /\ (bindpc = "returned" /\ ~r.found) => EntriesOf(tagContent, cs[k]) = <<>>
                   /\ (bindpc = "returned" /\ r.found) =>
                        EntriesOf(tagContent, cs[k]) = bindNode(<<>>, cs[k].comment, r.node).tagContent
          /\ bindpc = "threw" =>
               \E k \in 1..Len(cs) :
                 LET r == findNodeAfter(t, cs[k].pos)
                 IN  r.found /\ r.node.type = "FunctionDeclaration" /\ r.node.id = Null

C6_Witness ==
    /\ bindpc = "returned"
    /\ content = <<"fn", "doc", "var1", "doc">>
    /\ Len(tagContent) = 1

----------------------------------------------------------------------------
(* Properties of exclude (SpecSelect) *)

IsPrefix(p, f) == Len(p) < Len(f) /\ SubSeq(f, 1, Len(p)) = p

\* rule r matches the path f of a file
Matches(r, f) == match(r, <<"">> \o f, FALSE) \/ match(r, f, FALSE)

\* the re-inclusion lines exclude builds from the include paths
ReInclusions(a) == SelectSeq(rule(a), LAMBDA l : l.neg)

\* C7: under '*' followed by the re-inclusion rules of include path p, every
\* .js or .jsx file under p is selected, no file under p with another extension
\* is, and no file is selected that no re-inclusion rule matches.
C7_ReInclusion ==
    walk = "done" =>
      LET sel == Range(excluded.value)
          inc == ReInclusions(arr)
      IN  /\ \A p \in Range(arr) : \A f \in fileTree :
               IsPrefix(p, f) => (f \in sel <=> extname(f) \in {".js", ".jsx"})
          /\ \A f \in sel : \E k \in 1..Len(inc) : Matches(inc[k], f)
          /\ sel \subseteq fileTree

C7_Witness ==
    /\ walk = "done"
    /\ arr = <<<<"foo">>>>
    /\ ignoreLines = <<>>
    /\ <<"foo", "bar.js">> \in Range(excluded.value)
    /\ <<"foo", "lib", "bar.jsx">> \in Range(excluded.value)
    /\ <<"foo", "bar.txt">> \notin Range(excluded.value)

\* the outcome last-match-wins gives for file f under an ordered rule list:
\* the last rule that matches decides, and a path no rule matches is kept
LastMatch(rules, f) ==
    LET M == {i \in 1..Len(rules) : Matches(rules[i], f)}
    IN  IF M = {} THEN TRUE ELSE rules[CHOOSE i \in M : \A j \in M : j <= i].neg

Base == <<Line(FALSE, <<"*">>)>>
IgnorePatterns == SelectSeq(ignoreLines, LAMBDA l : ~l.comment)

\* (a) '*', (b) the ignore file, (c) the re-inclusions
ClaimedOrder == Base \o IgnorePatterns \o ReInclusions(arr)
\* (b) the ignore file, (a) '*', (c) the re-inclusions
CodeOrder    == IgnorePatterns \o Base \o ReInclusions(arr)

----------------------------------------------------------------------------
(* Properties of one run of extract (Spec), continued *)

\* C9: when the walk emits 'error', the promise of extract is rejected with that
\* error; the .then callback never runs, so no file is read or parsed, nothing
\* is logged and no list of FileResults exists.
C9_SelectorFailureFatal ==
    walk = "error" =>
      /\ excluded.state = "rejected"
      /\ excluded.value \in WalkErrors
      /\ pc \in {"waiting", "done"}
      /\ promise.state # "resolved"
      /\ pc = "done" => promise = Rejected(excluded.value)
      /\ list = <<>> /\ fileCount = 0 /\ result = <<>> /\ badFiles = <<>> /\ out = <<>>

C9_Witness ==
    /\ walk = "error"
    /\ pc = "done"
    /\ promise = Rejected("readFile")

Kinds(o) == {o[i].kind : i \in 1..Len(o)}

HasCount(o, kind, n) == \E i \in 1..Len(o) : o[i].kind = kind /\ o[i].n = n

FailedCountLogged ==
    \/ HasCount(out, "unparsableFiles", Len(badFiles))
    \/ HasCount(out, "unparsableCount", Len(badFiles))

Ended == pc = "done" /\ promise.state = "resolved"

\* C10 (as claimed): at every verbosity level a run that gets past selection
\* ends with the count of processed files and the count of failed files logged
C10_BothCountsAlways ==
    Ended =>
      /\ HasCount(out, "filesProcessed", Len(list))
      /\ badFiles # <<>> => FailedCountLogged

\* C10 (amended): a run that gets past selection and reads every selected file
\* logs the count of processed files last of all its per-file output, at every
\* verbosity level; the count of failed files is logged only when a file failed
\* and verbosity >= 1, the names of the failed files only at verbosity >= 2, as
\* is the progress line; the error message of a failure only at verbosity 3 and
\* the full error only at verbosity >= 4.
C10_SummaryByVerbosity ==
    /\ Ended =>
         /\ HasCount(out, "filesProcessed", Len(list))
         /\ FailedCountLogged <=> (badFiles # <<>> /\ verbosity >= 1)
         /\ "fileName" \in Kinds(out) <=> (badFiles # <<>> /\ verbosity >= 2)
         /\ "progress" \in Kinds(out) <=> (list # <<>> /\ verbosity >= 2)
         /\ "errorMessage" \in Kinds(out) <=> (badFiles # <<>> /\ verbosity = 3)
         /\ "errorObject" \in Kinds(out) <=> (badFiles # <<>> /\ verbosity >= 4)
         /\ \A i, j \in 1..Len(out) :
              (out[i].kind = "filesProcessed" /\ out[j].kind \in {"progress", "errorMessage", "errorObject"})
                => j < i
    /\ (pc = "done" /\ excluded.state = "resolved" /\ AllReadable) => Ended
    /\ ~Ended => "filesProcessed" \notin Kinds(out)

C10_Witness ==
    /\ Ended
    /\ verbosity = 0
    /\ badFiles # <<>>
    /\ out = <<[kind |-> "filesProcessed", n |-> Len(list)]>>

----------------------------------------------------------------------------
(* Properties of the value extract resolves with (Spec) *)

\* list.map over l with the files' texts taken from d: the array it returns
\* and the badFiles it leaves
RECURSIVE runOn(_, _, _, _)
runOn(l, d, n, bad) ==
    IF l = <<>> THEN [result |-> <<>>, badFiles |-> bad]
    ELSE LET r    == processFile(Head(l), d[Head(l)], n, verbosity, bad)
             rest == runOn(Tail(l), d, n + 1, r.badFiles)
         IN  [result |-> <<r.tag>> \o rest.result, badFiles |-> rest.badFiles]

\* the disks that differ from disk in the text of one selected file
OtherDisks ==
    {[disk EXCEPT ![f] = s] : f \in Range(list), s \in Sources}

\* C11 (as claimed): the value extract resolves with tells which files failed:
\* no run over the same list resolves with the same value and another set of
\* failed files
C11_ValueTellsFailures ==
    promise.state = "resolved" =>
      \A d \in OtherDisks :
        runOn(list, d, 0, <<>>).result = promise.value
          => Range(runOn(list, d, 0, <<>>).badFiles) = Range(badFiles)

\* C11 (amended): the value extract resolves with is the array list.map
\* returned and nothing else: one record of exactly the fields name and
\* content per selected file, in order, the content being what acornParse
\* pushed for that file; badFiles is not part of it.
C11_ResultsOnly ==
    promise.state = "resolved" =>
      /\ promise.value = result
      /\ Len(promise.value) = Len(list)
      /\ \A i \in 1..Len(promise.value) :
           /\ DOMAIN promise.value[i] = {"content", "name"}
           /\ promise.value[i].name = list[i]
           /\ promise.value[i].content = acornParse(disk[list[i]], <<>>).tagContent

C11_Witness ==
    /\ promise.state = "resolved"
    /\ Len(list) >= 2
    /\ disk[list[1]] = SrcUnbalanced
    /\ badFiles = <<list[1]>>
    /\ promise.value[1].content = <<>>
    /\ LET d == [disk EXCEPT ![list[1]] = SrcPlain]
       IN  /\ runOn(list, d, 0, <<>>).result = promise.value
           /\ runOn(list, d, 0, <<>>).badFiles = <<>>

----------------------------------------------------------------------------
(* SpecTwice: extract(arr) called twice over the same tree, texts and       *)
(* configuration.  The walker's lstat/readdir callbacks complete in any     *)
(* order, so the files enter its result Set in any order; the root walker   *)
(* sorts them when it emits 'done'.  A call keeps nothing from the call     *)
(* before it: list, result and badFiles are locals of the .then callback.   *)

\* Array.from(result).sort(this.sort), result given in insertion order
sortDoneMutInsertion(found) == found
sortDone(found) == SortSeq(found, PathLess)

\* the .then callback of extract run on list l: list.map and the return
thenValue(l) ==
    IF \E i \in 1..Len(l) : disk[l[i]] = Unreadable
      THEN Rejected(Unreadable)
      ELSE Resolved(runOn(l, disk, 0, <<>>).result)

\* a call of extract at walk.start(): todo are the files the walk will add to
\* its result Set, found the ones it has added, in insertion order
NewRun ==
    [walk |-> "walking", todo |-> walkResult(fileTree, arr, ignoreLines),
     found |-> <<>>, excluded |-> Pending, promise |-> Pending]

Active == runs # <<>> /\ runs[Len(runs)].promise.state = "pending"

\* extract(arr) is called; the second call is made once the first has settled
Call ==
    /\ ~Active
    /\ Len(runs) < 2
    /\ runs' = Append(runs, NewRun)
    /\ UNCHANGED <<inputVars, walkVars, runVars, bindVars>>

\* a callback of the walk completes: one more file enters the result Set
OnStat ==
    /\ Active
    /\ LET r == runs[Len(runs)] IN
       /\ r.walk = "walking"
       /\ \E f \in r.todo :
            runs' = [runs EXCEPT ![Len(runs)].found = Append(r.found, f),
                                 ![Len(runs)].todo = r.todo \ {f}]
    /\ UNCHANGED <<inputVars, walkVars, runVars, bindVars>>

\* every callback has completed: the root walker emits 'done'
EmitDone ==
    /\ Active
    /\ LET r == runs[Len(runs)] IN
       /\ r.walk = "walking"
       /\ r.todo = {}
       /\ runs' = [runs EXCEPT ![Len(runs)].walk = "done",
                               ![Len(runs)].excluded = onDone(sortDone(r.found))]
    /\ UNCHANGED <<inputVars, walkVars, runVars, bindVars>>

\* the .then callback runs on the list and the promise of extract settles
Then ==
    /\ Active
    /\ LET r == runs[Len(runs)] IN
       /\ r.excluded.state = "resolved"
       /\ runs' = [runs EXCEPT ![Len(runs)].promise = thenValue(r.excluded.value)]
    /\ UNCHANGED <<inputVars, walkVars, runVars, bindVars>>

TwiceSources == {SrcConfig, SrcUnbalanced}
TwiceIncludes == {<<<<>>>>, <<<<"foo">>, <<"lib">>>>}

InitTwice ==
    /\ fileTree = RunTree
    /\ disk \in [{f \in RunTree : IsSource(f)} -> TwiceSources]
    /\ arr \in TwiceIncludes
    /\ ignoreLines \in RunIgnores
    /\ verbosity \in {0, MaxVerbosity}
    /\ walk = "idle"
    /\ excluded = Pending
    /\ list = <<>>
    /\ pc = "waiting"
    /\ fileCount = 0
    /\ result = <<>>
    /\ badFiles = <<>>
    /\ out = <<>>
    /\ promise = Pending
    /\ content = <<>> /\ tagContent = <<>> /\ bindpc = "off"
    /\ runs = <<>>

NextTwice ==
    \/ Call
    \/ OnStat
    \/ EmitDone
    \/ Then

SpecTwice == InitTwice /\ [][NextTwice]_vars

Settled(r) == runs[r].promise.state # "pending"

\* C12: two calls of extract with the same include paths over the same tree,
\* texts and configuration settle with the same value, the same FileResults in
\* the same order with the same TaggedComments in the same order, in whatever
\* order the callbacks of each walk completed; the value is the one the sorted
\* selection gives.
C12_Deterministic ==
    /\ \A r, q \in 1..Len(runs) :
         (Settled(r) /\ Settled(q)) => runs[r].promise = runs[q].promise
    /\ runs # <<>> =>
         LET data == doneData(fileTree, arr, ignoreLines) IN
         \A r \in 1..Len(runs) :
           /\ runs[r].walk = "done" => runs[r].excluded = onDone(data)
           /\ Settled(r) => runs[r].promise = thenValue(data)

C12_Witness ==
    /\ Len(runs) = 2
    /\ runs[1].promise.state = "resolved"
    /\ runs[2].promise.state = "resolved"
    /\ runs[1].found # runs[2].found
    /\ runs[1].found # runs[1].excluded.value
    /\ Len(runs[2].promise.value) >= 2
    /\ \E i \in 1..Len(runs[2].promise.value) : Len(runs[2].promise.value[i].content) >= 2

====
